---- MODULE Spec2Model ----
(***************************************************************************)
(* The two fake-compiler wrappers print_args.cc (iostream) and             *)
(* print_args.cpp (stdio): each prints a begin sentinel, its arguments one *)
(* per line, an end sentinel, and returns 1.  Text is modelled as a        *)
(* sequence of characters; a C string is a character buffer closed by NUL. *)
(* Standard output is taken to accept every write.                         *)
(***************************************************************************)
EXTENDS Integers, Sequences, FiniteSets, TLC

\* ---------------------------------------------------------------- bounds
\* most arguments after the program name
MaxArgs == 2
\* number of times the program is started in one behaviour
MaxRuns == 2

\* ------------------------------------------------------------ characters
\* the byte that ends a C string
NUL == "\\0"

\* the sentinel texts of the output format, without their newline
BEGIN_SENTINEL ==
  << "=", "=", "=", "H", "E", "D", "R", "O", "N", "_", "C", "O",
    "M", "P", "I", "L", "E", "_", "C", "O", "M", "M", "A", "N",
    "D", "S", "_", "B", "E", "G", "I", "N", "_", "A", "R", "G",
    "S", "=", "=", "=" >>
END_SENTINEL ==
  << "=", "=", "=", "H", "E", "D", "R", "O", "N", "_", "C", "O",
    "M", "P", "I", "L", "E", "_", "C", "O", "M", "M", "A", "N",
    "D", "S", "_", "E", "N", "D", "_", "A", "R", "G", "S", "=",
    "=", "=" >>

\* the string literals of print_args.cc, as they lie in memory
cc_BEGIN_ARGS ==
  << "=", "=", "=", "H", "E", "D", "R", "O", "N", "_", "C", "O",
    "M", "P", "I", "L", "E", "_", "C", "O", "M", "M", "A", "N",
    "D", "S", "_", "B", "E", "G", "I", "N", "_", "A", "R", "G",
    "S", "=", "=", "=", "\n", NUL >>
cc_END_ARGS ==
  << "=", "=", "=", "H", "E", "D", "R", "O", "N", "_", "C", "O",
    "M", "P", "I", "L", "E", "_", "C", "O", "M", "M", "A", "N",
    "D", "S", "_", "E", "N", "D", "_", "A", "R", "G", "S", "=",
    "=", "=", "\n", NUL >>
cc_newline == << "\n", NUL >>

\* the string literals of print_args.cpp, as they lie in memory
cpp_BEGIN_ARGS ==
  << "=", "=", "=", "H", "E", "D", "R", "O", "N", "_", "C", "O",
    "M", "P", "I", "L", "E", "_", "C", "O", "M", "M", "A", "N",
    "D", "S", "_", "B", "E", "G", "I", "N", "_", "A", "R", "G",
    "S", "=", "=", "=", "\n", NUL >>
cpp_END_ARGS ==
  << "=", "=", "=", "H", "E", "D", "R", "O", "N", "_", "C", "O",
    "M", "P", "I", "L", "E", "_", "C", "O", "M", "M", "A", "N",
    "D", "S", "_", "E", "N", "D", "_", "A", "R", "G", "S", "=",
    "=", "=", "\n", NUL >>
cpp_format == << "%", "s", "\n", NUL >>

\* ------------------------------------------------------ argument vectors
\* the texts an argument can have: the empty text, a plain word, a text with
\* blanks, a newline, a printf directive, and the sentinels themselves
ArgTexts ==
  { << >>, << "a" >>, << "a", " ", "b" >>, << "\n" >>, << "%", "s" >>,
    BEGIN_SENTINEL, END_SENTINEL }
\* the names the program can be invoked under
ProgNames == { << "a" >>, << "b" >> }
\* what else the process could look at: environment, files, pending input
ExtStates == { "e1", "e2" }
\* the two programs
Programs == { "cc", "cpp" }

\* a text as the launcher stores it: its characters, then NUL
CString(t) == t \o << NUL >>
\* argv for a program name and the arguments after it, indexed from 0
ArgVector(name, args) ==
  [ k \in 0..Len(args) |-> IF k = 0 THEN CString(name) ELSE CString(args[k]) ]
\* all argument vectors: argc = 0 (no program name at all), or a name and
\* up to MaxArgs arguments
ArgVectors ==
  { << >> } \cup
  { ArgVector(name, args) : name \in ProgNames,
                            args \in UNION { [1..m -> ArgTexts] : m \in 0..MaxArgs } }

\* ----------------------------------------------------------------- state
VARIABLES
  prog,     \* which program this process runs: "cc" or "cpp"
  argc,     \* main's argc
  argv,     \* main's argv: index -> NUL-terminated buffer
  env,      \* external state visible to the process
  in,       \* number of characters consumed from standard input
  out,      \* characters written to standard output, in order
  err,      \* characters written to standard error, in order
  pc,       \* source line main is at
  i,        \* the loop variable (0 while not yet in scope)
  status,   \* exit code, Running until main has returned
  iters,    \* how many times the loop body was entered in this run
  run,      \* number of this run
  prev      \* << >> or one record: the previous run's program, argv, output, status

vars == << prog, argc, argv, env, in, out, err, pc, i, status, iters, run, prev >>

\* status of a process that has not returned
Running == 0 - 1

\* ------------------------------------------------------- library helpers
\* variant of CStr: reads one blank-delimited token, as a word-wise reader does
RECURSIVE CStrToBlank(_)
CStrToBlank(buf) ==
  IF buf = << >> \/ Head(buf) = NUL \/ Head(buf) = " " THEN << >>
  ELSE << Head(buf) >> \o CStrToBlank(Tail(buf))

\* the characters of a C string: everything before the first NUL
RECURSIVE CStr(_)
CStr(buf) ==
  IF buf = << >> \/ Head(buf) = NUL THEN << >>
  ELSE << Head(buf) >> \o CStr(Tail(buf))

\* std::ostream << const char* : appends the C string's characters
Insert(os, s) == os \o CStr(s)

\* what printf produces for a format and its string arguments: ordinary
\* characters are copied, each %s is replaced by the next argument
RECURSIVE Format(_, _)
Format(fmt, args) ==
  IF fmt = << >> \/ Head(fmt) = NUL THEN << >>
  ELSE IF Head(fmt) = "%" /\ Len(fmt) >= 2 /\ fmt[2] = "s"
       THEN CStr(Head(args)) \o Format(SubSeq(fmt, 3, Len(fmt)), Tail(args))
       ELSE << Head(fmt) >> \o Format(Tail(fmt), args)

\* variant of printf: puts-like, a newline is added after the formatted text
printf_puts(os, fmt, args) == os \o Format(fmt, args) \o << "\n" >>

\* printf(fmt, args...) on a stream
printf(os, fmt, args) == os \o Format(fmt, args)

\* variant of LoopCond: the loop stops one argument early
LoopCondOffByOne(i_, argc_) == i_ < argc_ - 1

\* the loop condition  i < argc
LoopCond(i_, argc_) == i_ < argc_

\* ------------------------------------------------------------------ Init
Init ==
  /\ prog \in Programs
  /\ argv \in ArgVectors
  /\ argc = Cardinality(DOMAIN argv)
  /\ env \in ExtStates
  /\ in = 0
  /\ out = << >>
  /\ err = << >>
  /\ pc = "L6"
  /\ i = 0
  /\ status = Running
  /\ iters = 0
  /\ run = 1
  /\ prev = << >>

\* ---------------------------------------------------------- print_args.cc
\* variant of cc_PrintBegin: the sentinel goes to std::cerr
cc_PrintBeginCerr ==
  /\ prog = "cc" /\ pc = "L6"
  /\ err' = Insert(err, cc_BEGIN_ARGS)
  /\ pc' = "L7_init"
  /\ UNCHANGED << prog, argc, argv, env, in, out, i, status, iters, run, prev >>

\* line 6: std::cout << "===HEDRON_COMPILE_COMMANDS_BEGIN_ARGS===\n";
cc_PrintBegin ==
  /\ prog = "cc" /\ pc = "L6"
  /\ out' = Insert(out, cc_BEGIN_ARGS)
  /\ pc' = "L7_init"
  /\ UNCHANGED << prog, argc, argv, env, in, err, i, status, iters, run, prev >>

\* variant of cc_ForInit: the loop starts at index 0
cc_ForInitZero ==
  /\ prog = "cc" /\ pc = "L7_init"
  /\ i' = 0
  /\ pc' = "L7_test"
  /\ UNCHANGED << prog, argc, argv, env, in, out, err, status, iters, run, prev >>

\* line 7: int i = 1
cc_ForInit ==
  /\ prog = "cc" /\ pc = "L7_init"
  /\ i' = 1
  /\ pc' = "L7_test"
  /\ UNCHANGED << prog, argc, argv, env, in, out, err, status, iters, run, prev >>

\* line 7: i < argc
cc_ForTest ==
  /\ prog = "cc" /\ pc = "L7_test"
  /\ pc' = IF LoopCond(i, argc) THEN "L8" ELSE "L10"
  /\ UNCHANGED << prog, argc, argv, env, in, out, err, i, status, iters, run, prev >>

\* variant of cc_PrintArg: the arguments are taken from the back
cc_PrintArgReversed ==
  /\ prog = "cc" /\ pc = "L8"
  /\ out' = Insert(out, argv[argc - i])
  /\ iters' = iters + 1
  /\ pc' = "L8_nl"
  /\ UNCHANGED << prog, argc, argv, env, in, err, i, status, run, prev >>

\* line 8, first insertion: std::cout << argv[i]
cc_PrintArg ==
  /\ prog = "cc" /\ pc = "L8"
  /\ out' = Insert(out, argv[i])
  /\ iters' = iters + 1
  /\ pc' = "L8_nl"
  /\ UNCHANGED << prog, argc, argv, env, in, err, i, status, run, prev >>

\* variant of cc_PrintNewline: the arguments are separated by a blank
cc_PrintBlank ==
  /\ prog = "cc" /\ pc = "L8_nl"
  /\ out' = Insert(out, << " ", NUL >>)
  /\ pc' = "L7_incr"
  /\ UNCHANGED << prog, argc, argv, env, in, err, i, status, iters, run, prev >>

\* line 8, second insertion: << "\n"
cc_PrintNewline ==
  /\ prog = "cc" /\ pc = "L8_nl"
  /\ out' = Insert(out, cc_newline)
  /\ pc' = "L7_incr"
  /\ UNCHANGED << prog, argc, argv, env, in, err, i, status, iters, run, prev >>

\* line 7: ++i
cc_ForIncr ==
  /\ prog = "cc" /\ pc = "L7_incr"
  /\ i' = i + 1
  /\ pc' = "L7_test"
  /\ UNCHANGED << prog, argc, argv, env, in, out, err, status, iters, run, prev >>

\* line 10: std::cout << "===HEDRON_COMPILE_COMMANDS_END_ARGS===\n";
cc_PrintEnd ==
  /\ prog = "cc" /\ pc = "L10"
  /\ out' = Insert(out, cc_END_ARGS)
  /\ pc' = "L12"
  /\ UNCHANGED << prog, argc, argv, env, in, err, i, status, iters, run, prev >>

\* variant of cc_Return: the conventional return 0
cc_ReturnZero ==
  /\ prog = "cc" /\ pc = "L12"
  /\ status' = 0
  /\ pc' = "exited"
  /\ UNCHANGED << prog, argc, argv, env, in, out, err, i, iters, run, prev >>

\* line 12: return 1;
cc_Return ==
  /\ prog = "cc" /\ pc = "L12"
  /\ status' = 1
  /\ pc' = "exited"
  /\ UNCHANGED << prog, argc, argv, env, in, out, err, i, iters, run, prev >>

\* one step of print_args.cc's main
cc_main ==
  \/ cc_PrintBegin \/ cc_ForInit \/ cc_ForTest \/ cc_PrintArg
  \/ cc_PrintNewline \/ cc_ForIncr \/ cc_PrintEnd \/ cc_Return

\* --------------------------------------------------------- print_args.cpp
\* line 6: printf("===HEDRON_COMPILE_COMMANDS_BEGIN_ARGS===\n");
cpp_PrintBegin ==
  /\ prog = "cpp" /\ pc = "L6"
  /\ out' = printf(out, cpp_BEGIN_ARGS, << >>)
  /\ pc' = "L7_init"
  /\ UNCHANGED << prog, argc, argv, env, in, err, i, status, iters, run, prev >>

\* variant of cpp_ForInit: i is declared without initialiser and holds
\* whatever the stack held
cpp_ForInitUninit ==
  /\ prog = "cpp" /\ pc = "L7_init"
  /\ i' \in 0..argc
  /\ pc' = "L7_test"
  /\ UNCHANGED << prog, argc, argv, env, in, out, err, status, iters, run, prev >>

\* line 7: int i = 1
cpp_ForInit ==
  /\ prog = "cpp" /\ pc = "L7_init"
  /\ i' = 1
  /\ pc' = "L7_test"
  /\ UNCHANGED << prog, argc, argv, env, in, out, err, status, iters, run, prev >>

\* line 7: i < argc
cpp_ForTest ==
  /\ prog = "cpp" /\ pc = "L7_test"
  /\ pc' = IF LoopCond(i, argc) THEN "L8" ELSE "L10"
  /\ UNCHANGED << prog, argc, argv, env, in, out, err, i, status, iters, run, prev >>

\* line 8: printf("%s\n",argv[i]);
cpp_PrintArg ==
  /\ prog = "cpp" /\ pc = "L8"
  /\ out' = printf(out, cpp_format, << argv[i] >>)
  /\ iters' = iters + 1
  /\ pc' = "L7_incr"
  /\ UNCHANGED << prog, argc, argv, env, in, err, i, status, run, prev >>

\* variant of cpp_ForIncr: the index is advanced twice per iteration
cpp_ForIncrTwice ==
  /\ prog = "cpp" /\ pc = "L7_incr"
  /\ i' = i + 2
  /\ pc' = "L7_test"
  /\ UNCHANGED << prog, argc, argv, env, in, out, err, status, iters, run, prev >>

\* line 7: ++i
cpp_ForIncr ==
  /\ prog = "cpp" /\ pc = "L7_incr"
  /\ i' = i + 1
  /\ pc' = "L7_test"
  /\ UNCHANGED << prog, argc, argv, env, in, out, err, status, iters, run, prev >>

\* line 10: printf("===HEDRON_COMPILE_COMMANDS_END_ARGS===\n");
cpp_PrintEnd ==
  /\ prog = "cpp" /\ pc = "L10"
  /\ out' = printf(out, cpp_END_ARGS, << >>)
  /\ pc' = "L12"
  /\ UNCHANGED << prog, argc, argv, env, in, err, i, status, iters, run, prev >>

\* line 12: return 1;
cpp_Return ==
  /\ prog = "cpp" /\ pc = "L12"
  /\ status' = 1
  /\ pc' = "exited"
  /\ UNCHANGED << prog, argc, argv, env, in, out, err, i, iters, run, prev >>

\* one step of print_args.cpp's main
cpp_main ==
  \/ cpp_PrintBegin \/ cpp_ForInit \/ cpp_ForTest \/ cpp_PrintArg
  \/ cpp_ForIncr \/ cpp_PrintEnd \/ cpp_Return

\* ------------------------------------------------------------ the caller
\* After a run has exited the caller starts program p again on the same
\* arguments, possibly under another invocation name and with other
\* external state; the finished run is remembered in prev.
Start(p, name, e) ==
  /\ pc = "exited" /\ run < MaxRuns
  /\ prev' = << [ prog |-> prog, argv |-> argv, out |-> out, status |-> status ] >>
  /\ prog' = p
  /\ argv' = IF argc = 0 THEN argv ELSE [ argv EXCEPT ![0] = CString(name) ]
  /\ env' = e
  /\ out' = << >>
  /\ pc' = "L6"
  /\ i' = 0
  /\ status' = Running
  /\ iters' = 0
  /\ run' = run + 1
  /\ UNCHANGED << argc, in, err >>

Restart == \E p \in Programs, name \in ProgNames, e \in ExtStates : Start(p, name, e)

Step == cc_main \/ cpp_main

Next == cc_main \/ cpp_main \/ Restart

Spec == Init /\ [][Next]_vars

\* the process is scheduled until it returns
FairSpec == Spec /\ WF_vars(Step)

\* ------------------------------------------------- the output, as stated
\* the text the launcher was given for a buffer: the buffer without its NUL
Content(buf) == SubSeq(buf, 1, Len(buf) - 1)
\* the arguments after the program name, in order (none when argc <= 1)
Args(av) == [ k \in 1..(Cardinality(DOMAIN av) - 1) |-> Content(av[k]) ]
\* a text as a line
Line(t) == t \o << "\n" >>
\* the lines of the first k texts of ts, one after the other
RECURSIVE LinesOf(_, _)
LinesOf(ts, k) == IF k = 0 THEN << >> ELSE LinesOf(ts, k - 1) \o Line(ts[k])
\* what has been written once the first k arguments are out
OutputUpTo(as, k) == Line(BEGIN_SENTINEL) \o LinesOf(as, k)
\* the whole output for arguments as
ExpectedOutput(as) == OutputUpTo(as, Len(as)) \o Line(END_SENTINEL)

\* s is an initial part of t
IsPrefix(s, t) == Len(s) <= Len(t) /\ SubSeq(t, 1, Len(s)) = s

\* a text cut at its newlines; a last piece without newline counts as a line
\* position of the first newline of text at or after from, Len(text)+1 if none
NextNewline(text, from) ==
  CHOOSE k \in from..(Len(text) + 1) :
    /\ (k = Len(text) + 1 \/ text[k] = "\n")
    /\ \A j \in from..(k - 1) : text[j] # "\n"
RECURSIVE LinesFrom(_, _)
LinesFrom(text, from) ==
  IF from > Len(text) THEN << >>
  ELSE LET k == NextNewline(text, from)
       IN  << SubSeq(text, from, k - 1) >> \o LinesFrom(text, k + 1)
Lines(text) == LinesFrom(text, 1)
NewlineTerminated(text) == text # << >> /\ text[Len(text)] = "\n"
\* what the consumer takes as the arguments: the lines strictly between
\* the first and the last line
Between(text) == SubSeq(Lines(text), 2, Len(Lines(text)) - 1)

\* number of newline characters in a text, and in all texts of a sequence
NewlinesIn(t) == Cardinality({ k \in 1..Len(t) : t[k] = "\n" })
RECURSIVE NewlinesInAll(_, _)
NewlinesInAll(ts, k) ==
  IF k = 0 THEN 0 ELSE NewlinesInAll(ts, k - 1) + NewlinesIn(ts[k])
NoNewline(ts) == NewlinesInAll(ts, Len(ts)) = 0

Exited == pc = "exited"
\* a second run has exited and the run before it is on record
Compared == Exited /\ prev # << >>
Max(a, b) == IF a >= b THEN a ELSE b

\* ---------------------------------------------------------------- claims
\* C1: when main has returned, standard output is exactly the begin
\* sentinel line, each argument after the program name unmodified and in
\* order followed by one newline, then the end sentinel line, and nothing
\* else; with no arguments it is the two sentinel lines.
C1_ExactOutput ==
  Exited =>
    /\ out = ExpectedOutput(Args(argv))
    /\ (argc <= 1 => out = Line(BEGIN_SENTINEL) \o Line(END_SENTINEL))
C1_Witness ==
  /\ Exited /\ argc = 3
  /\ Args(argv)[1] # Args(argv)[2]
  /\ out = ExpectedOutput(Args(argv))

\* C2: a terminated execution has exit code 1 whatever the arguments; no
\* execution returns 0 or any other value.
C2_ExitCodeOne ==
  /\ status \in { Running, 1 }
  /\ (Exited <=> status = 1)
C2_Witness == Exited /\ status = 1 /\ argc = 3

\* C3: argv[0] is not emitted and does not influence the result: a run of
\* the same program on an argv that differs only at index 0 gives the same
\* output and exit code, and the lines between the sentinels are exactly
\* the elements at indices 1..argc-1.
C3_NameIgnored ==
  /\ (Compared /\ prev[1].prog = prog /\ argc > 0 /\ prev[1].argv[0] # argv[0]
        /\ (\A k \in 1..(argc - 1) : prev[1].argv[k] = argv[k]))
       => (out = prev[1].out /\ status = prev[1].status)
  /\ (Exited /\ argc > 0)
       => out = Line(BEGIN_SENTINEL)
                  \o LinesOf([ k \in 1..(argc - 1) |-> Content(argv[k]) ], argc - 1)
                  \o Line(END_SENTINEL)
C3_Witness ==
  /\ Compared /\ prev[1].prog = prog /\ argc = 3
  /\ prev[1].argv[0] # argv[0]
  /\ argv[1] = argv[0]
  /\ out = prev[1].out

\* C4: the iostream program and the stdio program, given the same argument
\* vector, write the same lines in the same order and return the same exit
\* code.
C4_ProgramsEquivalent ==
  (Compared /\ prev[1].prog # prog /\ prev[1].argv = argv)
    => /\ out = prev[1].out
       /\ Lines(out) = Lines(prev[1].out)
       /\ status = prev[1].status
C4_Witness ==
  /\ Compared /\ prev[1].prog = "cc" /\ prog = "cpp" /\ prev[1].argv = argv
  /\ argc = 3 /\ Args(argv)[1] # Args(argv)[2]
  /\ out = prev[1].out

\* C5: the program writes only to standard output: standard error stays
\* empty, standard input is never consumed, and no step of main changes
\* standard error, standard input or the external state.
C5_OnlyStdout ==
  /\ [](err = << >> /\ in = 0)
  /\ [][run' = run => UNCHANGED << env, in, err >>]_vars
C5_Witness ==
  /\ Exited /\ argc = 3
  /\ out = ExpectedOutput(Args(argv))
  /\ err = << >> /\ in = 0

\* C6: two runs of the program with identical argument vectors give
\* identical output and the same exit code, whatever the external state of
\* either run (env is chosen afresh at every start).
C6_Deterministic ==
  (Compared /\ prev[1].prog = prog /\ prev[1].argv = argv)
    => (out = prev[1].out /\ status = prev[1].status)
C6_Witness ==
  /\ Compared /\ prev[1].prog = prog /\ prev[1].argv = argv
  /\ argc = 3 /\ out = prev[1].out /\ status = prev[1].status

\* C7 as stated: for N arguments of arbitrary text the output has exactly
\* N+2 newline-terminated lines, line 1 the begin sentinel, line N+2 the
\* end sentinel, line i+1 exactly argument i.
C7_Original ==
  Exited =>
    LET as == Args(argv)
        ls == Lines(out)
    IN  /\ NewlineTerminated(out)
        /\ Len(ls) = Len(as) + 2
        /\ ls[1] = BEGIN_SENTINEL
        /\ ls[Len(as) + 2] = END_SENTINEL
        /\ \A k \in 1..Len(as) : ls[k + 1] = as[k]
\* C7 amended: the output is newline-terminated and has N+2+K lines, K the
\* number of newline characters inside the arguments; when no argument
\* contains a newline it has exactly N+2 lines, line 1 the begin sentinel,
\* line N+2 the end sentinel and line i+1 exactly argument i (empty
\* arguments and blanks included).
C7_LinesPerArgument ==
  Exited =>
    LET as == Args(argv)
        ls == Lines(out)
    IN  /\ NewlineTerminated(out)
        /\ Len(ls) = Len(as) + 2 + NewlinesInAll(as, Len(as))
        /\ NoNewline(as) =>
             /\ ls[1] = BEGIN_SENTINEL
             /\ ls[Len(as) + 2] = END_SENTINEL
             /\ \A k \in 1..Len(as) : ls[k + 1] = as[k]
C7_Witness ==
  /\ Exited /\ argc = 3
  /\ Args(argv) = << << >>, << "a", " ", "b" >> >>
  /\ Len(Lines(out)) = 4

\* C8: writes happen in a fixed order: the begin sentinel first, argument i
\* before argument i+1, the end sentinel after all arguments, nothing after
\* the end sentinel, the exit code after the end sentinel; what is written
\* so far is always a prefix of the final output and only ever grows.
C8_Order ==
  /\ [](LET as == Args(argv) IN
          /\ IsPrefix(out, ExpectedOutput(as))
          /\ (pc = "L6" <=> out = << >>)
          /\ (pc \in { "L7_test", "L8" } => out = OutputUpTo(as, i - 1))
          /\ (pc = "L7_incr" => out = OutputUpTo(as, i))
          /\ (pc = "L10" => out = OutputUpTo(as, Len(as)))
          /\ (pc \in { "L12", "exited" } <=> out = ExpectedOutput(as))
          /\ (status # Running => out = ExpectedOutput(as)))
  /\ [][run' = run =>
          /\ IsPrefix(out, out')
          /\ (pc \in { "L12", "exited" } => out' = out)]_vars
C8_Witness ==
  /\ pc = "L7_incr" /\ i = 1 /\ argc = 3
  /\ Args(argv)[1] # Args(argv)[2]
  /\ out = OutputUpTo(Args(argv), 1)

\* C9: every run terminates: the loop index starts at 1 and goes up by 1
\* per iteration, the body runs exactly max(argc-1, 0) times, then the end
\* sentinel is written and main returns.
C9_Terminates ==
  /\ []<>Exited
  /\ [](Exited =>
          /\ iters = Max(argc - 1, 0)
          /\ i = Max(argc, 1)
          /\ SubSeq(out, Len(out) - Len(END_SENTINEL), Len(out)) = Line(END_SENTINEL))
  /\ [](iters <= Max(argc - 1, 0))
  /\ [][i' # i => \/ (pc = "L7_init" /\ i' = 1)
                  \/ (pc = "L7_incr" /\ i' = i + 1)
                  \/ (run' # run /\ i' = 0)]_vars
C9_Witness == Exited /\ argc = 3 /\ iters = 2 /\ i = 3

\* C10: for arguments without newline characters the argument vector is
\* recovered from the output as the lines strictly between the first and
\* the last line, also when an argument equals a sentinel; so different
\* such vectors never give the same output.
C10_RoundTrip ==
  (Exited /\ NoNewline(Args(argv))) =>
    /\ Between(out) = Args(argv)
    /\ Lines(out)[1] = BEGIN_SENTINEL
    /\ Lines(out)[Len(Lines(out))] = END_SENTINEL
C10_Witness ==
  /\ Exited /\ Args(argv) = << END_SENTINEL, BEGIN_SENTINEL >>
  /\ Between(out) = Args(argv)

====
